---- MODULE Spec2Model ----
(***************************************************************************)
(* Model of homework_bot (src/homework.py, src/exceptions.py): the         *)
(* polling loop of main() with its try / except / finally control flow,    *)
(* and the functions it calls (check_tokens, get_api_answer,               *)
(* check_response, parse_status, send_message).                            *)
(*                                                                         *)
(* Python values are modelled as follows.                                  *)
(*  - a dict of a homework record is a set of <<key, value>> pairs wrapped *)
(*    in [isdict, items], so that == of Python is = of TLA+;               *)
(*  - an exception is [cls, msg]; str(exception) is Str, which quotes the  *)
(*    argument of a KeyError as Python does;                               *)
(*  - message texts are ASCII renderings of the Russian literals of the    *)
(*    source (the line of each literal is given next to it).               *)
(***************************************************************************)
EXTENDS Integers, Sequences, FiniteSets, TLC

VARIABLES
    creds,             \* <<PRACTICUM_TOKEN, TELEGRAM_TOKEN, TELEGRAM_CHAT_ID>>
    pc,                \* position of main()
    timestamp,         \* the poll cursor (main, line 140)
    previous_message,  \* line 141
    error_message,     \* line 142
    info_message,      \* line 143
    response,          \* the local `response` of the current cycle
    exc,               \* the exception in flight / caught by a handler
    propagating,       \* an exception raised inside a handler is leaving the loop
    fetches,           \* history: calls of get_api_answer so far
    sleeps,            \* history: calls of time.sleep(RETRY_PERIOD) so far
    cur,               \* history: what the current cycle did
    last,              \* history: what the previous cycle did
    run                \* history: facts about the whole run

vars == <<creds, pc, timestamp, previous_message, error_message, info_message,
          response, exc, propagating, fetches, sleeps, cur, last, run>>

----------------------------------------------------------------------------
(* Bounds of the model *)

\* cycles of the loop that the model explores
MaxCycles == 3
\* the server's current_date values are 1..MaxDate; the start time is 0
MaxDate == 2

----------------------------------------------------------------------------
(* Program constants *)

RETRY_PERIOD == 600

\* HOMEWORK_VERDICTS, lines 35-39
HOMEWORK_VERDICTS ==
    [s \in {"approved", "reviewing", "rejected"} |->
        CASE s = "approved"  -> "Rabota proverena: revueru vse ponravilos. Ura!"
          [] s = "reviewing" -> "Rabota vzyata na proverku revuerom."
          [] s = "rejected"  -> "Rabota proverena: u revuera est zamechaniya."]

\* the literals of the source
MSG_SEND_FAILED      == "Oshibka otpravki soobscheniya v chat"            \* line 58
MSG_API_REQUEST      == "Oshibka zaprosa k API-servisu ENDPOINT"          \* line 73
MSG_API_UNEXPECTED   == "Peredano chto-to neozhidannoe pri zaprose k API" \* line 77
MSG_NOT_DICT         == "Otvet API ne yavlyaetsya slovarem"               \* line 86
MSG_NO_HOMEWORKS     == "V otvete API net klyucha \"homeworks\""          \* line 90
MSG_NO_CURRENT_DATE  == "V otvete API net klyucha \"current_date\""       \* line 94
MSG_NOT_LIST         == "V otvete API dannye domashek prihodyat ne v vide spiska" \* line 98
MSG_EMPTY            == "Spisok domashnih rabot pust"                     \* line 102
MSG_HW_NOT_DICT      == "Domashnyaya rabota dolzhna byt v vide slovarya"  \* line 110
MSG_NO_NAME          == "V otvete API net klyucha \"homework_name\""      \* line 116
MSG_NO_STATUS        == "V otvete API net klyucha \"status\""             \* line 122
MSG_UNDOCUMENTED     == "Nedokumentirovannyi status domashki, libo domashka bez statusa" \* line 128
MSG_BOT_STARTED      == "Bot uspeshno nachal rabotu"                      \* line 164
MSG_JSON             == "Expecting value"      \* response.json() on a body that is no JSON, line 79
MSG_INDEX            == "list index out of range"  \* [][0], line 149

----------------------------------------------------------------------------
(* Python values *)

Dict(items) == [isdict |-> TRUE, items |-> items]
EmptyDict == Dict({})
\* a value that is no dict (a string, a number, a list)
NotADict == [isdict |-> FALSE, items |-> {}]

Has(d, k) == \E p \in d.items : p[1] = k
Get(d, k) == (CHOOSE p \in d.items : p[1] = k)[2]

NoExc == [cls |-> "none", msg |-> ""]
Raise(cls, msg) == [cls |-> cls, msg |-> msg]
Return(val) == [cls |-> "return", msg |-> val]
Raised(r) == r.cls \notin {"none", "return"}

\* str(error) / f'{error}': a KeyError renders the repr of its argument
Str(e) == IF e.cls = "KeyError" THEN "'" \o e.msg \o "'" ELSE e.msg

----------------------------------------------------------------------------
(* Inputs *)

Names == {"proj1"}
\* "None" stands for the JSON null
Statuses == {"approved", "reviewing", "rejected", "weird", "None"}

Homeworks ==
    {NotADict} \cup
    { Dict(n \cup s) :
        n \in {{}} \cup {{<<"homework_name", x>>} : x \in Names},
        s \in {{}} \cup {{<<"status", x>>} : x \in Statuses} }

\* an older record that may follow the newest one in the list
OlderRecord == Dict({<<"homework_name", "proj0">>, <<"status", "approved">>})

HomeworkLists ==
    {<< >>} \cup {<<h>> : h \in Homeworks} \cup {<<h, OlderRecord>> : h \in Homeworks}

\* the decoded JSON body: a mapping with some of the two keys, or something else
NotAMapping ==
    [isdict |-> FALSE, keys |-> {}, is_list |-> FALSE, homeworks |-> << >>,
     current_date |-> 0]

\* the values are in canonical form: what is absent is zero / empty
WellFormed(r) ==
    /\ ("current_date" \in r.keys) = (r.current_date # 0)
    /\ r.is_list => "homeworks" \in r.keys
    /\ (r.homeworks # << >>) => r.is_list

Responses ==
    {NotAMapping} \cup
    { r \in [isdict : {TRUE}, keys : SUBSET {"homeworks", "current_date"},
             is_list : BOOLEAN, homeworks : HomeworkLists,
             current_date : 0..MaxDate] : WellFormed(r) }

NoResponse == NotAMapping

Tokens == {"None", "", "token"}

----------------------------------------------------------------------------
(* The functions of src/homework.py *)

Truthy(x) == x \notin {"None", ""}

check_tokensAny(c) == \E i \in 1..3 : Truthy(c[i])

\* check_tokens, lines 42-44: all([...]) of the three module-level values
check_tokens(c) == \A i \in 1..3 : Truthy(c[i])

send_messageSwallow(ok) == NoExc

\* send_message, lines 47-59; ok is whether bot.send_message returned
send_message(ok) ==
    IF ok THEN NoExc ELSE Raise("SendMessageError", MSG_SEND_FAILED)

\* get_api_answer, lines 62-79; o is what the network did
get_api_answer(o) ==
    CASE o = "raise"    -> Raise("GetApiAnswerError", MSG_API_REQUEST)
      [] o = "not_ok"   -> Raise("GetApiAnswerError", MSG_API_UNEXPECTED)
      [] o = "bad_json" -> Raise("JSONDecodeError", MSG_JSON)
      [] OTHER          -> NoExc

check_responseDateFirst(r) ==
    IF ~r.isdict THEN Raise("TypeError", MSG_NOT_DICT)
    ELSE IF "current_date" \notin r.keys THEN Raise("KeyError", MSG_NO_CURRENT_DATE)
    ELSE IF "homeworks" \notin r.keys THEN Raise("KeyError", MSG_NO_HOMEWORKS)
    ELSE IF ~r.is_list THEN Raise("TypeError", MSG_NOT_LIST)
    ELSE IF r.homeworks = << >> THEN Raise("CheckResponseError", MSG_EMPTY)
    ELSE NoExc

check_responseNoEmpty(r) ==
    IF ~r.isdict THEN Raise("TypeError", MSG_NOT_DICT)
    ELSE IF "homeworks" \notin r.keys THEN Raise("KeyError", MSG_NO_HOMEWORKS)
    ELSE IF "current_date" \notin r.keys THEN Raise("KeyError", MSG_NO_CURRENT_DATE)
    ELSE IF ~r.is_list THEN Raise("TypeError", MSG_NOT_LIST)
    ELSE NoExc

\* check_response, lines 82-103
check_response(r) ==
    IF ~r.isdict THEN Raise("TypeError", MSG_NOT_DICT)
    ELSE IF "homeworks" \notin r.keys THEN Raise("KeyError", MSG_NO_HOMEWORKS)
    ELSE IF "current_date" \notin r.keys THEN Raise("KeyError", MSG_NO_CURRENT_DATE)
    ELSE IF ~r.is_list THEN Raise("TypeError", MSG_NOT_LIST)
    ELSE IF r.homeworks = << >> THEN Raise("CheckResponseError", MSG_EMPTY)
    ELSE NoExc

StatusText(name, verdict) ==
    "Izmenilsya status proverki raboty \"" \o name \o "\". " \o verdict

parse_statusAnyVerdict(homework) ==
    IF ~homework.isdict THEN Raise("TypeError", MSG_HW_NOT_DICT)
    ELSE IF ~Has(homework, "homework_name") THEN Raise("KeyError", MSG_NO_NAME)
    ELSE IF ~Has(homework, "status") THEN Raise("KeyError", MSG_NO_STATUS)
    ELSE Return(StatusText(Get(homework, "homework_name"),
                           IF Get(homework, "status") \in DOMAIN HOMEWORK_VERDICTS
                           THEN HOMEWORK_VERDICTS[Get(homework, "status")]
                           ELSE "None"))

\* parse_status, lines 106-130
parse_status(homework) ==
    IF ~homework.isdict THEN Raise("TypeError", MSG_HW_NOT_DICT)
    ELSE IF ~Has(homework, "homework_name") THEN Raise("KeyError", MSG_NO_NAME)
    ELSE IF ~Has(homework, "status") THEN Raise("KeyError", MSG_NO_STATUS)
    ELSE IF Get(homework, "status") \notin DOMAIN HOMEWORK_VERDICTS
         THEN Raise("ParseStatusError", MSG_UNDOCUMENTED)
    ELSE Return(StatusText(Get(homework, "homework_name"),
                           HOMEWORK_VERDICTS[Get(homework, "status")]))

\* line 168
ErrorText(error) == "Sboi v rabote programmy: " \o Str(error)

----------------------------------------------------------------------------
(* History of a cycle *)

\* the first record of a fetched response, when it has one
HasFirst(r) == r.isdict /\ "homeworks" \in r.keys /\ r.is_list /\ r.homeworks # << >>

NewCycle(ts) ==
    [ts_before |-> ts,           \* the cursor when the cycle began
     prev_before |-> EmptyDict,  \* previous_message when the cycle began
     err_before |-> "",          \* error_message when the cycle began
     info_before |-> "",         \* info_message when the cycle began
     fetched |-> FALSE,          \* get_api_answer returned a body
     fetch_failed |-> FALSE,     \* get_api_answer raised GetApiAnswerError
     has_first |-> FALSE,        \* the body has a first record,
     first |-> NotADict,         \*   which is this one
     fetched_date |-> 0,         \* the body's current_date (0: none)
     empty_valid |-> FALSE,      \* the body is a valid mapping with an empty list
     check_exc |-> NoExc,        \* what check_response raised
     parse_called |-> FALSE,     \* parse_status was called,
     parse_result |-> NoExc,     \*   and returned or raised this
     path |-> "none",            \* "success", "info" or "error"
     text |-> "",                \* the message rendered by the handler
     invoked |-> 0,              \* calls of send_message
     delivered |-> 0,            \* calls of send_message that returned
     status_sent |-> FALSE,      \* the status notification was delivered
     error_invoked |-> 0,        \* calls of send_message with the error text
     error_sent |-> 0,           \* ... that returned
     started_sent |-> 0,         \* deliveries of MSG_BOT_STARTED
     sends |-> << >>,            \* the calls of send_message: text, outcome
     slept |-> FALSE]            \* the finally clause has run

NoCycle == NewCycle(0)

\* what is kept of a cycle once it has ended
Summary(c) ==
    [c EXCEPT !.slept = TRUE, !.prev_before = EmptyDict, !.err_before = "",
              !.info_before = "", !.sends = << >>]

\* one call of send_message: its text, whether the transport call returned,
\* and what send_message raised
Sent(text, ok, e) == [text |-> text, ok |-> ok, exc |-> e]

----------------------------------------------------------------------------
(* main(), lines 133-177 *)

Init ==
    /\ creds \in [1..3 -> Tokens]
    /\ pc = "start"
    /\ timestamp = 0
    /\ previous_message = EmptyDict
    /\ error_message = ""
    /\ info_message = ""
    /\ response = NoResponse
    /\ exc = NoExc
    /\ propagating = FALSE
    /\ fetches = 0
    /\ sleeps = 0
    /\ cur = NoCycle
    /\ last = NoCycle
    /\ run = [first_empty |-> FALSE, started_sent |-> 0, error_notified |-> ""]

\* lines 135-143: sys.exit() without the credentials, else the loop is entered
Startup ==
    /\ pc = "start"
    /\ pc' = IF check_tokens(creds) THEN "get_api_answer" ELSE "exited"
    /\ UNCHANGED <<creds, timestamp, previous_message, error_message, info_message,
                   response, exc, propagating, fetches, sleeps, cur, last, run>>

\* line 147
GetApiAnswer ==
    /\ pc = "get_api_answer"
    /\ fetches < MaxCycles
    /\ fetches' = fetches + 1
    /\ \E o \in {"raise", "not_ok", "bad_json", "ok"}, body \in Responses :
         LET e == get_api_answer(o)
             begin == [NewCycle(timestamp) EXCEPT
                         !.prev_before = previous_message,
                         !.err_before = error_message,
                         !.info_before = info_message]
         IN
         IF Raised(e)
         THEN /\ body = NoResponse
              /\ exc' = e
              /\ pc' = "except"
              /\ response' = NoResponse
              /\ cur' = [begin EXCEPT
                           !.fetch_failed = (e.cls = "GetApiAnswerError")]
              /\ run' = run
         ELSE /\ exc' = NoExc
              /\ pc' = "check_response"
              /\ response' = body
              /\ cur' = [begin EXCEPT
                           !.fetched = TRUE,
                           !.has_first = HasFirst(body),
                           !.first = IF HasFirst(body) THEN Head(body.homeworks)
                                     ELSE NotADict,
                           !.fetched_date = body.current_date,
                           !.empty_valid = /\ body.isdict
                                           /\ body.keys = {"homeworks", "current_date"}
                                           /\ body.is_list
                                           /\ body.homeworks = << >>]
              /\ run' = IF fetches = 0
                        THEN [run EXCEPT !.first_empty = cur'.empty_valid]
                        ELSE run
    /\ UNCHANGED <<creds, timestamp, previous_message, error_message, info_message,
                   propagating, sleeps, last>>

\* line 148
CheckResponse ==
    /\ pc = "check_response"
    /\ LET e == check_response(response) IN
         /\ exc' = e
         /\ pc' = IF Raised(e) THEN "except" ELSE "notify"
         /\ cur' = [cur EXCEPT !.check_exc = e]
    /\ UNCHANGED <<creds, timestamp, previous_message, error_message, info_message,
                   response, propagating, fetches, sleeps, last, run>>

IsNewAlways(homework, previous) == TRUE

\* line 150
IsNew(homework, previous) == homework # previous

AfterSkipNoUpdate == "finally"

\* lines 150-157: line 157 follows the if statement, whether or not its body ran
AfterSkip == "update"

RememberedBeforeSend(homework, previous, e) == homework

RememberedNever(homework, previous, e) == previous

\* lines 152-156: previous_message = homework is reached when send_message
\* returned, and skipped when it raised e
Remembered(homework, previous, e) == IF Raised(e) THEN previous ELSE homework

\* lines 149-156
NotifyStatus ==
    /\ pc = "notify"
    /\ IF response.homeworks = << >>
       THEN /\ exc' = Raise("IndexError", MSG_INDEX)
            /\ pc' = "except"
            /\ UNCHANGED <<previous_message, cur>>
       ELSE LET homework == Head(response.homeworks) IN
            IF IsNew(homework, previous_message)
            THEN LET status == parse_status(homework) IN
                 IF Raised(status)
                 THEN /\ exc' = status
                      /\ pc' = "except"
                      /\ cur' = [cur EXCEPT !.parse_called = TRUE,
                                             !.parse_result = status]
                      /\ UNCHANGED previous_message
                 ELSE \E ok \in BOOLEAN :
                        LET e == send_message(ok) IN
                        /\ exc' = e
                        /\ pc' = IF Raised(e) THEN "except" ELSE "update"
                        /\ previous_message' =
                              Remembered(homework, previous_message, e)
                        /\ cur' = [cur EXCEPT
                                     !.parse_called = TRUE,
                                     !.parse_result = status,
                                     !.invoked = @ + 1,
                                     !.delivered = IF ok THEN @ + 1 ELSE @,
                                     !.status_sent = ok,
                                     !.sends = Append(@, Sent(status.msg, ok, e))]
            ELSE /\ pc' = AfterSkip
                 /\ UNCHANGED <<previous_message, exc, cur>>
    /\ UNCHANGED <<creds, timestamp, error_message, info_message, response,
                   propagating, fetches, sleeps, last, run>>

\* line 157
UpdateCursor ==
    /\ pc = "update"
    /\ timestamp' = response.current_date
    /\ pc' = "finally"
    /\ cur' = [cur EXCEPT !.path = "success"]
    /\ UNCHANGED <<creds, previous_message, error_message, info_message, response,
                   exc, propagating, fetches, sleeps, last, run>>

InfoChangedAlways(message, marker) == TRUE

\* line 160
InfoChanged(message, marker) == message # marker

ErrorChangedAlways(message, marker) == TRUE

\* line 169
ErrorChanged(message, marker) == message # marker

IsInfoNever(e) == FALSE

\* lines 158 and 167: the first clause takes a CheckResponseError, the second
\* every other exception
IsInfo(e) == e.cls = "CheckResponseError"

AfterHandlerSkipsFinally == "get_api_answer"

\* lines 176-177: the finally clause runs after a handler, whether the handler
\* returned or raised
AfterHandler == "finally"

\* lines 158-166
ExceptInfo ==
    /\ pc = "except"
    /\ IsInfo(exc)
    /\ pc' = AfterHandler
    /\ LET message == Str(exc) IN
       IF InfoChanged(message, info_message)
       THEN \E ok \in BOOLEAN :
              LET e == send_message(ok) IN
              /\ info_message' = IF Raised(e) THEN info_message ELSE message
              /\ propagating' = Raised(e)
              /\ exc' = IF Raised(e) THEN e ELSE exc
              /\ cur' = [cur EXCEPT
                           !.path = "info", !.text = message,
                           !.invoked = @ + 1,
                           !.delivered = IF ok THEN @ + 1 ELSE @,
                           !.started_sent = IF ok THEN @ + 1 ELSE @,
                           !.sends = Append(@, Sent(MSG_BOT_STARTED, ok, e))]
              /\ run' = [run EXCEPT !.started_sent = IF ok THEN @ + 1 ELSE @]
       ELSE /\ cur' = [cur EXCEPT !.path = "info", !.text = message]
            /\ UNCHANGED <<info_message, propagating, exc, run>>
    /\ UNCHANGED <<creds, timestamp, previous_message, error_message, response,
                   fetches, sleeps, last>>

\* lines 167-175
ExceptError ==
    /\ pc = "except"
    /\ ~IsInfo(exc)
    /\ pc' = AfterHandler
    /\ LET message == ErrorText(exc) IN
       IF ErrorChanged(message, error_message)
       THEN \E ok \in BOOLEAN :
              LET e == send_message(ok) IN
              /\ error_message' = IF Raised(e) THEN error_message ELSE message
              /\ propagating' = Raised(e)
              /\ exc' = IF Raised(e) THEN e ELSE exc
              /\ cur' = [cur EXCEPT
                           !.path = "error", !.text = message,
                           !.invoked = @ + 1,
                           !.delivered = IF ok THEN @ + 1 ELSE @,
                           !.error_invoked = @ + 1,
                           !.error_sent = IF ok THEN @ + 1 ELSE @,
                           !.sends = Append(@, Sent(message, ok, e))]
              /\ run' = [run EXCEPT !.error_notified = IF ok THEN message ELSE @]
       ELSE /\ cur' = [cur EXCEPT !.path = "error", !.text = message]
            /\ UNCHANGED <<error_message, propagating, exc, run>>
    /\ UNCHANGED <<creds, timestamp, previous_message, info_message, response,
                   fetches, sleeps, last>>

\* lines 176-177: time.sleep(RETRY_PERIOD); then the next iteration, or, when a
\* handler raised, the exception leaves the while loop and main()
Sleep ==
    /\ pc = "finally"
    /\ sleeps' = sleeps + 1
    /\ pc' = IF propagating THEN "crashed" ELSE "get_api_answer"
    /\ last' = Summary(cur)
    /\ cur' = NoCycle
    /\ response' = NoResponse
    /\ exc' = IF propagating THEN exc ELSE NoExc
    /\ UNCHANGED <<creds, timestamp, previous_message, error_message, info_message,
                   propagating, fetches, run>>

Next ==
    \/ Startup
    \/ GetApiAnswer
    \/ CheckResponse
    \/ NotifyStatus
    \/ UpdateCursor
    \/ ExceptInfo
    \/ ExceptError
    \/ Sleep

Spec == Init /\ [][Next]_vars

----------------------------------------------------------------------------
(* Properties *)

\* the previous cycle has ended and `last` describes it
LastEnded == last.slept

\* two consecutive cycles whose fetched bodies have the same first record
SameFirstRecord ==
    /\ LastEnded
    /\ last.has_first
    /\ cur.has_first
    /\ cur.first = last.first

\* two consecutive cycles that both took the error path with the same text
SameErrorText ==
    /\ LastEnded
    /\ last.path = "error"
    /\ cur.path = "error"
    /\ cur.text = last.text

\* C1: once the loop is entered no error raised inside a cycle terminates the
\* process: main() is never left by an exception.
C1_NeverTerminates == pc # "crashed"

\* C2 (as stated): over two consecutive cycles whose fetched responses have the
\* same first record, send_message is invoked at most once.
C2_AtMostOneSend == SameFirstRecord => last.invoked + cur.invoked <= 1

\* C2 (amended): over two consecutive cycles whose fetched responses have the
\* same first record, the status notification is delivered at most once: when
\* the first cycle delivered it, the second neither parses nor sends the record.
C2_StatusDeliveredAtMostOnce ==
    (SameFirstRecord /\ last.status_sent) =>
        (~cur.parse_called /\ ~cur.status_sent)

C2_Witness ==
    /\ SameFirstRecord
    /\ last.status_sent
    /\ cur.path = "success"
    /\ cur.invoked = 0

\* C3: over two consecutive cycles that both end in the error path with the
\* same rendered error text, the error notification is sent at most once and
\* the second cycle calls send_message with no error text and delivers nothing.
C3_ErrorDeduplicated ==
    SameErrorText =>
        /\ cur.error_invoked = 0
        /\ cur.delivered = 0
        /\ last.error_sent + cur.error_sent <= 1

C3_Witness ==
    /\ SameErrorText
    /\ last.error_sent = 1
    /\ pc = "finally"

\* C4: when the first cycle's response has an empty homeworks list the process
\* does not crash and, from the end of that cycle on, the 'bot started'
\* notification has been delivered exactly once.
C4_StartedExactlyOnce ==
    run.first_empty =>
        /\ pc # "crashed"
        /\ LastEnded => run.started_sent = 1

\* C5 (as stated): at the end of a cycle whose response is a valid mapping
\* with an empty homeworks list, the cursor equals that response's current_date.
C5_CursorUpdatedOnEmpty ==
    (cur.empty_valid /\ pc = "finally") => timestamp = cur.fetched_date

\* C5 (amended): a cycle whose response is a valid mapping with an empty
\* homeworks list takes the informational path and leaves the cursor at the
\* value it had before the cycle; line 157 is not reached.
C5_CursorKeptOnEmpty ==
    /\ (cur.empty_valid /\ pc = "finally") =>
          (cur.path = "info" /\ timestamp = cur.ts_before)
    /\ (LastEnded /\ last.empty_valid /\ pc \in {"get_api_answer", "crashed"}) =>
          (last.path = "info" /\ timestamp = last.ts_before)

C5_Witness ==
    /\ cur.empty_valid
    /\ pc = "finally"
    /\ cur.path = "info"
    /\ cur.fetched_date # cur.ts_before

\* C6: after a cycle in which get_api_answer failed the cycle has taken the
\* error path, the cursor has the value it had before the cycle, the error
\* notification was sent at most once, the process has not terminated, and the
\* next cycle starts from that same cursor.
C6_FetchFailureCycle ==
    /\ (LastEnded /\ last.fetch_failed) =>
          /\ last.path = "error"
          /\ last.error_sent <= 1
          /\ pc # "crashed"
          /\ pc = "get_api_answer" => timestamp = last.ts_before
          /\ cur # NoCycle => cur.ts_before = last.ts_before
    /\ (cur.fetch_failed /\ pc = "finally") =>
          (cur.path = "error" /\ timestamp = cur.ts_before /\ ~propagating)

\* C7: every call of get_api_answer but the first is preceded by exactly one
\* sleep since the previous cycle ended, whichever path that cycle took: the
\* n-th fetch starts after exactly n-1 sleeps.
C7_OneSleepBetweenCycles ==
    /\ pc = "get_api_answer" => sleeps = fetches
    /\ pc \in {"check_response", "notify", "update", "except", "finally"} =>
          /\ sleeps = fetches - 1
          /\ fetches >= 2 => (LastEnded /\ last.path # "none")

C7_Witness ==
    /\ pc = "check_response"
    /\ fetches = 3
    /\ sleeps = 2
    /\ last.path = "info"

\* C8: with a credential absent or empty main() exits at startup before any
\* call of get_api_answer or send_message; the loop is entered only with all
\* three credentials non-empty.
C8_NoCredentialsNoLoop ==
    /\ (\E i \in 1..3 : creds[i] \in {"None", ""}) =>
          /\ pc \in {"start", "exited"}
          /\ fetches = 0
          /\ cur.invoked = 0
          /\ last.invoked = 0
    /\ pc \notin {"start", "exited"} => \A i \in 1..3 : creds[i] = "token"

C8_Witness ==
    /\ pc = "exited"
    /\ creds = <<"token", "", "token">>

\* the record given to parse_status in this cycle
Parsed == cur.parse_called
DocumentedStatus(h) ==
    Has(h, "status") /\ Get(h, "status") \in {"approved", "reviewing", "rejected"}

\* C9 (as stated): parse_status of a record whose status is not one of the
\* three documented ones raises ParseStatusError, whatever else the record
\* contains or lacks.
C9_UndocumentedAlwaysParseError ==
    (Parsed /\ cur.first.isdict /\ ~DocumentedStatus(cur.first)) =>
        cur.parse_result.cls = "ParseStatusError"

\* C9 (amended): parse_status of a mapping that has both keys homework_name
\* and status, with a status value that is not one of the three documented
\* ones (null included), raises ParseStatusError; a mapping without
\* homework_name raises the KeyError naming homework_name, and one with
\* homework_name but without status the KeyError naming status.
C9_UndocumentedWithBothKeys ==
    (Parsed /\ cur.first.isdict) =>
        /\ (/\ Has(cur.first, "homework_name")
            /\ Has(cur.first, "status")
            /\ ~DocumentedStatus(cur.first))
           => cur.parse_result = [cls |-> "ParseStatusError", msg |-> MSG_UNDOCUMENTED]
        /\ ~Has(cur.first, "homework_name")
           => cur.parse_result = [cls |-> "KeyError", msg |-> MSG_NO_NAME]
        /\ (Has(cur.first, "homework_name") /\ ~Has(cur.first, "status"))
           => cur.parse_result = [cls |-> "KeyError", msg |-> MSG_NO_STATUS]

C9_Witness ==
    /\ Parsed
    /\ cur.first = Dict({<<"homework_name", "proj1">>, <<"status", "None">>})
    /\ cur.parse_result.cls = "ParseStatusError"
    /\ pc = "finally"

\* check_response has run on the response of this cycle
Checked ==
    cur.fetched /\ pc \in {"notify", "update", "except", "finally"}

\* C10: check_response fails on the first violated check in the order mapping,
\* 'homeworks' key, 'current_date' key, list type, non-empty; a mapping without
\* the 'homeworks' key fails with the missing-homeworks-key error, also when
\* 'current_date' is missing too, and parse_status is not called in that cycle.
C10_CheckOrder ==
    Checked =>
        /\ ~response.isdict
           => cur.check_exc = [cls |-> "TypeError", msg |-> MSG_NOT_DICT]
        /\ (response.isdict /\ "homeworks" \notin response.keys)
           => /\ cur.check_exc = [cls |-> "KeyError", msg |-> MSG_NO_HOMEWORKS]
              /\ ~cur.parse_called
        /\ (response.isdict /\ response.keys = {"homeworks"})
           => cur.check_exc = [cls |-> "KeyError", msg |-> MSG_NO_CURRENT_DATE]
        /\ (response.isdict /\ response.keys = {"homeworks", "current_date"}
                /\ ~response.is_list)
           => cur.check_exc = [cls |-> "TypeError", msg |-> MSG_NOT_LIST]
        /\ (response.isdict /\ response.keys = {"homeworks", "current_date"}
                /\ response.is_list /\ response.homeworks = << >>)
           => cur.check_exc = [cls |-> "CheckResponseError", msg |-> MSG_EMPTY]
        /\ (response.isdict /\ response.keys = {"homeworks", "current_date"}
                /\ response.is_list /\ response.homeworks # << >>)
           => cur.check_exc = NoExc

C10_Witness ==
    /\ Checked
    /\ response.isdict
    /\ response.keys = {}
    /\ cur.check_exc.msg = MSG_NO_HOMEWORKS
    /\ cur.path = "error"
    /\ pc = "finally"

\* the try statement of this cycle has ended and the finally clause is next
CycleEnd == pc = "finally"

\* the response of this cycle was fetched and passed check_response
Validated == cur.fetched /\ cur.check_exc = NoExc /\ pc \in {"update", "except", "finally"}

\* the text parse_status is to give for a record with a documented status
ExpectedText(h) ==
    StatusText(Get(h, "homework_name"), HOMEWORK_VERDICTS[Get(h, "status")])

\* C11: at the end of a cycle in which the fetch and the validation succeeded
\* and, when the newest record differs from the stored one, the extraction and
\* the send succeeded too, the cursor equals the response's current_date,
\* whether or not a notification was sent.
C11_CursorAfterSuccess ==
    (/\ CycleEnd
     /\ Validated
     /\ cur.first # cur.prev_before =>
            (cur.parse_result.cls = "return" /\ cur.status_sent))
    => /\ timestamp = cur.fetched_date
       /\ cur.path = "success"
       /\ ~propagating

C11_Witness ==
    /\ CycleEnd
    /\ Validated
    /\ cur.first = cur.prev_before
    /\ cur.invoked = 0
    /\ cur.fetched_date # cur.ts_before
    /\ timestamp = cur.fetched_date

\* C12: in a cycle whose validated response has a first record different from
\* previous_message and in which parse_status and send_message succeed, exactly
\* one notification is sent, its text is the status text of that record, and
\* previous_message is that record afterwards.
C12_StatusChangeNotified ==
    (/\ Validated
     /\ pc \in {"update", "finally"}
     /\ cur.first # cur.prev_before
     /\ cur.parse_result.cls = "return"
     /\ Len(cur.sends) >= 1
     /\ cur.sends[1].ok)
    => /\ Len(cur.sends) = 1
       /\ cur.invoked = 1
       /\ cur.delivered = 1
       /\ cur.sends[1].text = ExpectedText(cur.first)
       /\ cur.sends[1].text = cur.parse_result.msg
       /\ previous_message = cur.first

C12_Witness ==
    /\ Validated
    /\ CycleEnd
    /\ cur.prev_before = Dict({<<"homework_name", "proj1">>, <<"status", "reviewing">>})
    /\ cur.first = Dict({<<"homework_name", "proj1">>, <<"status", "approved">>})
    /\ Len(cur.sends) = 1
    /\ cur.sends[1].ok
    /\ previous_message = cur.first

\* C13: in a cycle whose validated response has a first record equal to
\* previous_message, parse_status and send_message are not called and
\* previous_message, error_message and info_message are left as they were.
C13_UnchangedRecordSkipped ==
    (Validated /\ cur.first = cur.prev_before)
    => /\ ~cur.parse_called
       /\ cur.sends = << >>
       /\ cur.invoked = 0
       /\ pc \in {"update", "finally"}
       /\ previous_message = cur.prev_before
       /\ error_message = cur.err_before
       /\ info_message = cur.info_before

C13_Witness ==
    /\ Validated
    /\ CycleEnd
    /\ cur.first = cur.prev_before
    /\ cur.first = Dict({<<"homework_name", "proj1">>, <<"status", "approved">>})
    /\ cur.err_before # ""

\* the previous cycle tried to send the status of its first record and failed
LastSendFailed ==
    /\ LastEnded
    /\ last.has_first
    /\ last.parse_result.cls = "return"
    /\ ~last.status_sent

\* C14: previous_message changes only in the step that delivered the status
\* notification of the newest record, and then becomes that record; a cycle
\* that ends in the error path or in the informational path leaves it as it
\* was; and a record whose send failed is parsed and sent again by the next
\* cycle whose validated response has it first.
C14_PreviousMessageFrame ==
    [][ /\ previous_message' # previous_message =>
              /\ pc = "notify"
              /\ cur'.status_sent
              /\ Len(cur'.sends) = 1
              /\ cur'.sends[1].ok
              /\ previous_message' = cur'.first
        /\ (pc' = "finally" /\ cur'.path \in {"error", "info"}) =>
              previous_message' = cur'.prev_before
        /\ (pc = "notify" /\ pc' # "notify" /\ LastSendFailed /\ cur.first = last.first) =>
              /\ cur'.parse_called
              /\ Len(cur'.sends) = 1
      ]_vars

C14_Witness ==
    /\ LastSendFailed
    /\ last.path = "error"
    /\ cur.has_first
    /\ cur.first = last.first
    /\ cur.status_sent
    /\ previous_message = cur.first
    /\ CycleEnd

\* C15: a cycle whose response is a valid mapping with an empty homeworks list
\* is handled by the informational path alone: it calls send_message with no
\* error text and leaves error_message as it was; a cycle that takes the error
\* path leaves info_message as it was.
C15_InfoAndErrorPathsApart ==
    /\ (cur.empty_valid /\ pc \in {"except", "finally"}) =>
          /\ cur.error_invoked = 0
          /\ error_message = cur.err_before
          /\ \A i \in 1..Len(cur.sends) : cur.sends[i].text = MSG_BOT_STARTED
          /\ CycleEnd => cur.path = "info"
    /\ cur.path = "error" =>
          /\ info_message = cur.info_before
          /\ cur.started_sent = 0

C15_Witness ==
    /\ cur.empty_valid
    /\ CycleEnd
    /\ cur.path = "info"
    /\ propagating
    /\ cur.err_before # ""

\* C16: a call of send_message whose transport call raised has raised
\* SendMessageError, and no other call of the same cycle has the same text.
C16_FailedSendNotRepeated ==
    \A i \in 1..Len(cur.sends) :
        ~cur.sends[i].ok =>
            /\ cur.sends[i].exc = [cls |-> "SendMessageError", msg |-> MSG_SEND_FAILED]
            /\ \A j \in 1..Len(cur.sends) :
                  j # i => cur.sends[j].text # cur.sends[i].text

C16_Witness ==
    /\ Len(cur.sends) = 2
    /\ ~cur.sends[1].ok
    /\ cur.sends[2].ok
    /\ CycleEnd

\* C17: error_message is always the text of the last delivered error
\* notification, so no successful or informational cycle clears it; a cycle
\* that fails with that text calls send_message with no error text and
\* delivers nothing.
C17_ErrorMarkerKept ==
    /\ error_message = run.error_notified
    /\ (cur.path = "error" /\ cur.text = cur.err_before) =>
          /\ cur.error_invoked = 0
          /\ cur.delivered = 0
          /\ error_message = cur.err_before

C17_Witness ==
    /\ LastEnded
    /\ last.path \in {"success", "info"}
    /\ cur.path = "error"
    /\ cur.text = cur.err_before
    /\ cur.error_invoked = 0
    /\ CycleEnd

====
